---- MODULE Spec2Model ----
(***************************************************************************)
(* REMP message cache (src/validator/message_cache.rs) and REMP catchain   *)
(* store (src/validator/remp_catchain.rs).                                 *)
(*                                                                         *)
(* The cache is three hash maps behind one async mutex.  A step of the     *)
(* model is one critical section (one execute_sync closure) of one caller. *)
(* MessageCache::update_message_status takes the mutex up to three times,  *)
(* so it is three steps; every other operation is a single step.           *)
(*                                                                         *)
(* The store is one hash map behind one async mutex.  start_catchain and   *)
(* stop_catchain take the mutex twice and do the session's start and stop  *)
(* between the two critical sections, outside the lock.                    *)
(***************************************************************************)
EXTENDS Integers, Sequences, FiniteSets, TLC

VARIABLES
    messages,          \* MessageCacheImpl.messages:         id -> RmqMessage
    message_shards,    \* MessageCacheImpl.message_shards:   id -> ShardIdent
    message_statuses,  \* MessageCacheImpl.message_statuses: id -> RempMessageStatus
    catchains,         \* RempCatchainStore.catchains: queue_id -> RempCatchainWrapper
    sessions,          \* the RempCatchainInfo objects behind the Arcs, by object id
    pc,                \* per caller: where it stands inside its call
    call,              \* per caller: the locals of its call
    trace,             \* whether completed calls are recorded in `last`
    last               \* the call that returned in the latest step, with its result

maps == <<messages, message_shards, message_statuses>>
store_vars == <<catchains, sessions>>
vars == <<messages, message_shards, message_statuses, catchains, sessions,
          pc, call, trace, last>>

(***************************************************************************)
(* Bounds and input sets.                                                  *)
(***************************************************************************)
MaxCc == 1                      \* small master_cc_seqno values are 0..MaxCc

MsgIds == {"m1", "m2"}          \* message_id values
Shards == {"S1", "S2"}          \* ShardIdent values
Blocks == {1, 2}                \* BlockIdExt values other than the default
Procs  == {"p1", "p2"}          \* concurrent callers of the cache
BlockDefault == 0               \* BlockIdExt::default()
Half == 65536                   \* a u32 is kept as <<high 16 bits, low 16 bits>>

(***************************************************************************)
(* u32 arithmetic on <<hi, lo>> pairs (TLC integers are narrower           *)
(* than 2^32).                                                             *)
(***************************************************************************)
U32(n) == <<0, n>>
U32Max == <<Half - 1, Half - 1>>
U32Le(x, y) == x[1] < y[1] \/ (x[1] = y[1] /\ x[2] <= y[2])
U32AddOverflows(x, k) == x[1] = Half - 1 /\ x[2] + k >= Half
U32WrappingAdd(x, k) ==
    IF x[2] + k < Half THEN <<x[1], x[2] + k>>
    ELSE <<(x[1] + 1) % Half, x[2] + k - Half>>

SmallCc == {U32(n) : n \in 0..MaxCc}
TopCc == {<<Half - 1, Half - 2>>, U32Max}
\* current_cc arguments: reach two past the small seqnos, plus the top of the range
CurrentCcs == {U32(n) : n \in 0..(MaxCc + 2)} \cup {U32Max}

(***************************************************************************)
(* RempMessageStatus.  One record shape for all variants; the fields a     *)
(* variant does not have hold a filler.                                    *)
(***************************************************************************)
Levels == {"Collator", "Shardchain", "Masterchain"}

RempNew == [tag |-> "New", level |-> "-", block_id |-> BlockDefault, error |-> "-"]
RempTimeout == [tag |-> "Timeout", level |-> "-", block_id |-> BlockDefault, error |-> "-"]
RempAccepted(l, b) == [tag |-> "Accepted", level |-> l, block_id |-> b, error |-> "-"]
RempRejected(l, b, e) == [tag |-> "Rejected", level |-> l, block_id |-> b, error |-> e]
RempIgnored(l, b) == [tag |-> "Ignored", level |-> l, block_id |-> b, error |-> "-"]
RempDuplicate(b) == [tag |-> "Duplicate", level |-> "-", block_id |-> b, error |-> "-"]

\* the statuses callers pass to update_message_status
StatusInputs ==
    {RempNew, RempTimeout}
    \cup {RempAccepted(l, b) : l \in Levels, b \in Blocks}
    \cup {RempRejected("Collator", b, "e") : b \in Blocks}
    \cup {RempIgnored("Collator", b) : b \in Blocks}
    \cup {RempDuplicate(b) : b \in Blocks}

IsAcceptedAt(s, l) == s.tag = "Accepted" /\ s.level = l

(***************************************************************************)
(* crate::ext_messages::validate_status_change is not among the sources;   *)
(* it is taken from the transition table of the specification (4.1).  The  *)
(* source writes the Duplicate status of the duplicate-detection rule      *)
(* through this predicate (message_cache.rs:359), and the rule is required *)
(* to succeed, so the predicate admits that edge as well.                  *)
(***************************************************************************)
TableEdge(old, new) ==
    CASE old.tag = "New" ->
            \/ IsAcceptedAt(new, "Collator")
            \/ new.tag \in {"Rejected", "Ignored", "Timeout"}
      [] IsAcceptedAt(old, "Collator") ->
            \/ /\ new.tag = "Accepted"
               /\ new.level \in {"Shardchain", "Masterchain"}
               /\ new.block_id = old.block_id
            \/ new.tag \in {"Ignored", "Timeout"}
      [] IsAcceptedAt(old, "Shardchain") ->
            \/ IsAcceptedAt(new, "Masterchain") /\ new.block_id = old.block_id
            \/ new.tag = "Timeout"
      [] old.tag = "Ignored" ->
            new.tag \in {"Accepted", "Rejected", "Duplicate", "Timeout"}
      [] OTHER -> FALSE

DuplicateEdge(old, new) ==
    /\ IsAcceptedAt(old, "Collator")
    /\ new.tag = "Duplicate"
    /\ new.block_id # old.block_id

validate_status_change(old, new) == TableEdge(old, new) \/ DuplicateEdge(old, new)

(***************************************************************************)
(* Helpers on maps (functions whose domain is the key set).                *)
(***************************************************************************)
Put(f, k, v) == [x \in DOMAIN f \cup {k} |-> IF x = k THEN v ELSE f[x]]
Drop(f, k) == [x \in DOMAIN f \ {k} |-> f[x]]
EmptyMap == [x \in {} |-> 0]

RECURSIVE Orders(_)
\* every order in which a HashMap may be iterated
Orders(S) ==
    IF S = {} THEN {<<>>}
    ELSE UNION {{<<x>> \o o : o \in Orders(S \ {x})} : x \in S}

Range(q) == {q[i] : i \in 1..Len(q)}

\* RmqMessage: the fields the cache reads
RmqMessage(id, cc) == [message_id |-> id, master_cc_seqno |-> cc]

NoCall == [op |-> "none"]
Idle == [message_id |-> "-", new_status |-> RempNew, old_block_id |-> BlockDefault]

\* a completed call is recorded when tracing is on
Completed(c) == IF trace THEN c ELSE NoCall

Some(s) == [some |-> TRUE, v |-> s]
None == [some |-> FALSE]
Err == [err |-> TRUE]
Ok(v) == [err |-> FALSE, v |-> v]
\* the call aborted on an arithmetic overflow (a build with overflow checks)
Panicked == [err |-> TRUE, panic |-> TRUE]

(***************************************************************************)
(* MessageCacheImpl: the closures run under the mutex.                     *)
(***************************************************************************)
\* RmqMessage::is_expired.  `self.master_cc_seqno + 2` is u32 arithmetic: a
\* build with overflow checks panics where the sum passes 2^32, a build
\* without them wraps.
is_expired_overflows(msg) == U32AddOverflows(msg.master_cc_seqno, 2)
is_expired(msg, current_cc_seqno) ==
    U32Le(U32WrappingAdd(msg.master_cc_seqno, 2), current_cc_seqno)

\* mutant: the write is not validated against the transition predicate
Impl_update_unvalidated(statuses, message_id, new_status) ==
    IF message_id \notin DOMAIN statuses
    THEN [err |-> TRUE, statuses |-> statuses]
    ELSE [err |-> FALSE, statuses |-> Put(statuses, message_id, new_status)]

\* mutant: the status is written before the transition is validated
Impl_update_writes_first(statuses, message_id, new_status) ==
    IF message_id \notin DOMAIN statuses
    THEN [err |-> TRUE, statuses |-> statuses]
    ELSE [err |-> ~validate_status_change(statuses[message_id], new_status),
          statuses |-> Put(statuses, message_id, new_status)]

\* MessageCacheImpl::update_message_status: the error cases, then the write
Impl_update_fails(statuses, message_id, new_status) ==
    \/ message_id \notin DOMAIN statuses
    \/ ~validate_status_change(statuses[message_id], new_status)

Impl_update_message_status(statuses, message_id, new_status) ==
    IF Impl_update_fails(statuses, message_id, new_status)
    THEN [err |-> TRUE, statuses |-> statuses]
    ELSE [err |-> FALSE, statuses |-> Put(statuses, message_id, new_status)]

\* mutant: the shard of a message is not compared
InShard_any_shard(shard) ==
    {id \in DOMAIN messages :
        id \in DOMAIN message_shards /\ id \in DOMAIN message_statuses}

\* MessageCacheImpl::for_all_messages_in_shard: the ids the visitor is called on
InShard(shard) ==
    {id \in DOMAIN messages :
        /\ id \in DOMAIN message_shards
        /\ message_shards[id] = shard
        /\ id \in DOMAIN message_statuses}

\* the match arm of downgrade_accepted_by_collator
DowngradeSelects(status) == IsAcceptedAt(status, "Collator")

\* the first loop of downgrade_accepted_by_collator, visiting ids in order o
RECURSIVE Downgrading(_)
Downgrading(o) ==
    IF o = <<>> THEN <<>>
    ELSE LET id == Head(o)
             st == message_statuses[id]
         IN  (IF DowngradeSelects(st)
              THEN <<[msg |-> messages[id],
                      status |-> RempIgnored(st.level, st.block_id)]>>
              ELSE <<>>) \o Downgrading(Tail(o))

\* the second loop: each update goes through update_message_status, an error
\* is logged and the loop goes on
RECURSIVE DowngradeApply(_, _)
DowngradeApply(statuses, batch) ==
    IF batch = <<>> THEN statuses
    ELSE DowngradeApply(
            Impl_update_message_status(
                statuses, Head(batch).msg.message_id, Head(batch).status).statuses,
            Tail(batch))

\* mutant: the level of an Accepted status is not looked at
OldProposal_any_level(status) ==
    IF status.tag \in {"Accepted", "Rejected", "Duplicate"}
    THEN None
    ELSE Some(RempTimeout)

\* the match of get_old_messages on the current status
OldProposal(status) ==
    IF \/ IsAcceptedAt(status, "Masterchain")
       \/ status.tag \in {"Rejected", "Duplicate"}
    THEN None
    ELSE Some(RempTimeout)

\* the loop of get_old_messages, visiting ids in order o
RECURSIVE Removing(_, _)
Removing(o, current_cc) ==
    IF o = <<>> THEN <<>>
    ELSE LET id == Head(o)
             msg == messages[id]
         IN  (IF id \in DOMAIN message_statuses
              THEN IF is_expired(msg, current_cc)
                   THEN <<[msg |-> msg, ns |-> OldProposal(message_statuses[id])]>>
                   ELSE <<>>
              ELSE <<[msg |-> msg, ns |-> None]>>) \o Removing(Tail(o), current_cc)

\* get_old_messages panics (overflow checks on) when is_expired is evaluated on
\* a record whose seqno is within 2 of the top of u32
OldPanics ==
    \E id \in DOMAIN messages :
        id \in DOMAIN message_statuses /\ is_expired_overflows(messages[id])

(***************************************************************************)
(* MessageCache: the public operations.  p is the caller.                  *)
(***************************************************************************)
CallerIdle(p) == pc[p] = "idle"
Returns(c) == last' = Completed(c)
NoReturn == last' = NoCall

\* mutant: an insert of a cached id overwrites the entry
new_message_with_shard_overwrites(p, message, shard) ==
    /\ CallerIdle(p)
    /\ messages' = Put(messages, message.message_id, message)
    /\ message_statuses' = Put(message_statuses, message.message_id, RempNew)
    /\ message_shards' = Put(message_shards, message.message_id, shard)
    /\ Returns([op |-> "insert", message |-> message, shard |-> shard,
                ret |-> [inserted |-> message.message_id \notin DOMAIN messages,
                         size |-> Cardinality(DOMAIN messages')]])
    /\ UNCHANGED <<pc, call, trace, store_vars>>

new_message_with_shard(p, message, shard) ==
    /\ CallerIdle(p)
    /\ IF message.message_id \in DOMAIN messages
       THEN /\ UNCHANGED maps
            /\ Returns([op |-> "insert", message |-> message, shard |-> shard,
                        ret |-> [inserted |-> FALSE,
                                 size |-> Cardinality(DOMAIN messages)]])
       ELSE /\ messages' = Put(messages, message.message_id, message)
            /\ message_statuses' = Put(message_statuses, message.message_id, RempNew)
            /\ message_shards' = Put(message_shards, message.message_id, shard)
            /\ Returns([op |-> "insert", message |-> message, shard |-> shard,
                        ret |-> [inserted |-> TRUE,
                                 size |-> Cardinality(DOMAIN messages')]])
    /\ UNCHANGED <<pc, call, trace, store_vars>>

\* mutant: the status entry is left behind
remove_message_keeps_status(p, message_id) ==
    /\ CallerIdle(p)
    /\ messages' = Drop(messages, message_id)
    /\ message_shards' = Drop(message_shards, message_id)
    /\ Returns([op |-> "remove", message_id |-> message_id])
    /\ UNCHANGED <<message_statuses, pc, call, trace, store_vars>>

remove_message(p, message_id) ==
    /\ CallerIdle(p)
    /\ messages' = Drop(messages, message_id)
    /\ message_shards' = Drop(message_shards, message_id)
    /\ message_statuses' = Drop(message_statuses, message_id)
    /\ Returns([op |-> "remove", message_id |-> message_id])
    /\ UNCHANGED <<pc, call, trace, store_vars>>

downgrade_accepted_by_collator(p, shard) ==
    /\ CallerIdle(p)
    /\ \E o \in Orders(InShard(shard)) :
          LET downgrading == Downgrading(o)
          IN  /\ message_statuses' = DowngradeApply(message_statuses, downgrading)
              /\ Returns([op |-> "downgrade", shard |-> shard, ret |-> downgrading])
    /\ UNCHANGED <<messages, message_shards, pc, call, trace, store_vars>>

get_old_messages(p, current_cc) ==
    /\ CallerIdle(p)
    /\ \E o \in Orders(DOMAIN messages), overflow_checks \in BOOLEAN :
          Returns([op |-> "get_old", current_cc |-> current_cc,
                   ret |-> IF overflow_checks /\ OldPanics
                           THEN [panic |-> TRUE, list |-> <<>>]
                           ELSE [panic |-> FALSE, list |-> Removing(o, current_cc)]])
    /\ UNCHANGED <<maps, pc, call, trace, store_vars>>

(***************************************************************************)
(* MessageCache::update_message_status.  Each action below is one          *)
(* execute_sync closure; the mutex is released between them.               *)
(***************************************************************************)
\* MessageCache::do_update_message_status followed by the return of `value`
do_update_and_return(p, message_id, new_status, written) ==
    LET r == Impl_update_message_status(message_statuses, message_id, written)
    IN  /\ message_statuses' = r.statuses
        /\ Returns([op |-> "update", message_id |-> message_id, new |-> new_status,
                    ret |-> IF r.err THEN Err ELSE Ok(Some(written))])
        /\ pc' = [pc EXCEPT ![p] = "idle"]
        /\ call' = [call EXCEPT ![p] = Idle]
        /\ UNCHANGED <<messages, message_shards, trace, store_vars>>

\* the condition under which the first closure reports Accepted-by-collator
ReadsAcceptedByCollator(message_id) ==
    /\ message_id \in DOMAIN message_statuses
    /\ IsAcceptedAt(message_statuses[message_id], "Collator")

\* mutant: only a shardchain acceptance is taken for a duplicate
IsDuplicateFor_shardchain_only(new_status, old_block_id) ==
    /\ new_status.level = "Shardchain"
    /\ new_status.block_id # old_block_id

\* lines 348-350: the new acceptance is for another block
IsDuplicateFor(new_status, old_block_id) ==
    /\ new_status.level \in {"Shardchain", "Masterchain"}
    /\ new_status.block_id # old_block_id

\* entry, for a status that is not Accepted: line 369 at once
update_other(p, message_id, new_status) ==
    /\ CallerIdle(p)
    /\ new_status.tag # "Accepted"
    /\ do_update_and_return(p, message_id, new_status, new_status)

\* entry, for an Accepted status: the closure of lines 339-347 and the test of
\* lines 348-350 on what it read
update_accepted(p, message_id, new_status) ==
    /\ CallerIdle(p)
    /\ new_status.tag = "Accepted"
    /\ IF ReadsAcceptedByCollator(message_id)
       THEN LET old_block_id == message_statuses[message_id].block_id
            IN  /\ pc' = [pc EXCEPT ![p] =
                        IF IsDuplicateFor(new_status, old_block_id)
                        THEN "write_duplicate" ELSE "write"]
                /\ call' = [call EXCEPT ![p] =
                        [message_id |-> message_id, new_status |-> new_status,
                         old_block_id |-> old_block_id]]
       ELSE /\ pc' = [pc EXCEPT ![p] = "get_status"]
            /\ call' = [call EXCEPT ![p] =
                        [message_id |-> message_id, new_status |-> new_status,
                         old_block_id |-> BlockDefault]]
    /\ NoReturn
    /\ UNCHANGED <<maps, trace, store_vars>>

\* lines 359-360
update_write_duplicate(p) ==
    /\ pc[p] = "write_duplicate"
    /\ do_update_and_return(p, call[p].message_id, call[p].new_status,
                            RempDuplicate(call[p].new_status.block_id))

\* mutant: an acceptance of a Duplicate is not dropped
update_get_status_no_drop(p) ==
    /\ pc[p] = "get_status"
    /\ pc' = [pc EXCEPT ![p] = "write"]
    /\ NoReturn
    /\ UNCHANGED <<maps, call, trace, store_vars>>

\* lines 364-366: get_message_status, and the drop of an update of a Duplicate
update_get_status(p) ==
    /\ pc[p] = "get_status"
    /\ IF /\ call[p].message_id \in DOMAIN message_statuses
          /\ message_statuses[call[p].message_id].tag = "Duplicate"
       THEN /\ Returns([op |-> "update", message_id |-> call[p].message_id,
                        new |-> call[p].new_status, ret |-> Ok(None)])
            /\ pc' = [pc EXCEPT ![p] = "idle"]
            /\ call' = [call EXCEPT ![p] = Idle]
       ELSE /\ pc' = [pc EXCEPT ![p] = "write"]
            /\ NoReturn
            /\ UNCHANGED call
    /\ UNCHANGED <<maps, trace, store_vars>>

\* lines 369-370
update_write(p) ==
    /\ pc[p] = "write"
    /\ do_update_and_return(p, call[p].message_id, call[p].new_status,
                            call[p].new_status)

(***************************************************************************)
(* RempCatchainInfo (the session) and RempCatchainStore.                   *)
(*                                                                         *)
(* An entry of the store holds an Arc to a session object; the objects are *)
(* kept in `sessions` by object id, so that catchain_ptr is a field of the *)
(* object and not of the entry.  An object is dropped when neither the     *)
(* store nor a call in progress refers to it.                              *)
(***************************************************************************)
MaxCount == 3                   \* create_catchain is not called on a larger count

QueueIds == {"q1", "q2"}        \* queue_id values
ObjIds == 1..(Cardinality(QueueIds) + Cardinality(Procs))

\* the fields of RempCatchainInfo that is_same_catchain reads
CatchainInfo(q, n, idx, key, list, cc, sh) ==
    [queue_id |-> q, nodes_len |-> n, local_idx |-> idx, local_key_id |-> key,
     node_list_id |-> list, master_cc_seqno |-> cc, shard |-> sh]

InfoA(q) == CatchainInfo(q, 1, 0, "k1", "l1", U32(0), "S1")

\* InfoA and the six infos that differ from it in one field
InfoInputs(q) ==
    {InfoA(q),
     [InfoA(q) EXCEPT !.nodes_len = 2],
     [InfoA(q) EXCEPT !.local_idx = 1],
     [InfoA(q) EXCEPT !.local_key_id = "k2"],
     [InfoA(q) EXCEPT !.node_list_id = "l2"],
     [InfoA(q) EXCEPT !.master_cc_seqno = U32(1)],
     [InfoA(q) EXCEPT !.shard = "S2"]}

\* mutant: only the queue_id is compared
is_same_catchain_by_id(self, other) ==
    self.queue_id = other.queue_id

\* RempCatchainInfo::is_same_catchain
is_same_catchain(self, other) ==
    /\ self.queue_id = other.queue_id
    /\ self.nodes_len = other.nodes_len
    /\ self.local_idx = other.local_idx
    /\ self.local_key_id = other.local_key_id
    /\ self.node_list_id = other.node_list_id
    /\ self.master_cc_seqno = other.master_cc_seqno
    /\ self.shard = other.shard

\* RempCatchainInfo::create, lines 89-113: the object, with no catchain yet
\* and its two channels empty: pending is the outbound pending_messages_queue,
\* rmq_catchain the inbound channel.  running tells whether the catchain that
\* RempCatchainInfo::start constructs exists and has not been stopped; it is
\* the catchain that calls the listener.
\* The other fields are history, not read by the program: starts and stops
\* count the calls of RempCatchainInfo::start and of the catchain's stop on
\* this object; creates counts the successful create_catchain calls on its
\* entry for as long as no stop_catchain has detached from it (detached);
\* submitted is every record sent into pending, in the order of the sends, and
\* drained every action that a finished process_blocks took out of it, with
\* whether its payload reached the catchain.
NewSession(info) ==
    [info |-> info, catchain_ptr |-> None,
     pending |-> <<>>, rmq_catchain |-> <<>>, running |-> FALSE,
     starts |-> 0, stops |-> 0, creates |-> 1, detached |-> FALSE,
     submitted |-> <<>>, drained |-> <<>>]

CatchainHandle == "catchain"
Unit == "()"

\* mutant: the wrapper is made with no reference counted
RempCatchainWrapper_create_unreferenced(o) ==
    [info |-> o, status |-> "Created", count |-> 0]

\* RempCatchainWrapper::create
RempCatchainWrapper_create(o) == [info |-> o, status |-> "Created", count |-> 1]

\* mutant: attach leaves the count as it is
attach_keeps_count(rcw) == rcw

\* RempCatchainWrapper::attach
attach(rcw) == [rcw EXCEPT !.count = @ + 1]

\* RempCatchainWrapper::detach: the wrapper after the decrement.  A count of 0
\* wraps to 2^32 - 1, written -1.
detach(rcw) == [rcw EXCEPT !.count = @ - 1]
detach_underflows(rcw) == rcw.count = 0

\* mutant: a second start of an Active entry starts the session again
start_match_restarts(status) ==
    IF status \in {"Created", "Active"} THEN "start" ELSE "fail"

\* mutant: a start during the Starting window reports success
start_match_joins(status) ==
    CASE status = "Created" -> "start"
      [] status = "Stopping" -> "fail"
      [] status \in {"Starting", "Active"} -> "none"

\* RempCatchainStore::start_catchain, the match of lines 428-439
start_match(status) ==
    CASE status = "Created" -> "start"
      [] status \in {"Starting", "Stopping"} -> "fail"
      [] status = "Active" -> "none"

\* mutant: only a Stopping entry refuses a stop
stop_allowed_unless_stopping(catchain) == catchain.status # "Stopping"

\* mutant: a Created entry can be stopped too
stop_allowed_or_created(catchain) == catchain.status \in {"Created", "Active"}

\* mutant: an entry whose session is being started can be stopped too
stop_allowed_or_starting(catchain) == catchain.status \in {"Starting", "Active"}

\* RempCatchainStore::stop_catchain, the test of line 466
stop_allowed(catchain) == catchain.status = "Active"

\* RempCatchainWrapper::set_active
set_active(rcw) ==
    IF rcw.status = "Starting"
    THEN [err |-> FALSE, rcw |-> [rcw EXCEPT !.status = "Active"]]
    ELSE [err |-> TRUE, rcw |-> rcw]

StorePcs == {"start_io", "set_session", "set_active", "stop_io", "stop_remove"}

ListenerPcs == {"drain", "hand"}

\* the objects the store or a call in progress refers to
Referenced(cs, pcs, cls) ==
    {cs[q].info : q \in DOMAIN cs} \cup
    {cls[p].info : p \in {x \in Procs : pcs[x] \in StorePcs \cup ListenerPcs}}

Collect(ss, cs, pcs, cls) ==
    [o \in DOMAIN ss \cap Referenced(cs, pcs, cls) |-> ss[o]]

NewObj == CHOOSE o \in ObjIds \ DOMAIN sessions :
              \A x \in ObjIds \ DOMAIN sessions : o <= x

\* a store call returns: the caller is idle again
StoreReturn(p, c) ==
    /\ pc' = [pc EXCEPT ![p] = "idle"]
    /\ call' = [call EXCEPT ![p] = Idle]
    /\ Returns(c)

\* RempCatchainStore::create_catchain: one critical section
create_catchain(p, remp_catchain_info) ==
    LET q == remp_catchain_info.queue_id
        done(r) == [op |-> "create", info |-> remp_catchain_info, ret |-> r]
    IN  /\ CallerIdle(p)
        /\ IF q \in DOMAIN catchains
           THEN IF is_same_catchain(sessions[catchains[q].info].info, remp_catchain_info)
                THEN /\ catchains[q].count < MaxCount
                     /\ catchains' = [catchains EXCEPT ![q] = attach(@)]
                     /\ sessions' = [sessions EXCEPT ![catchains[q].info].creates =
                                        IF sessions[catchains[q].info].detached
                                        THEN @ ELSE @ + 1]
                     /\ Returns(done(Ok(Unit)))
                ELSE /\ UNCHANGED store_vars
                     /\ Returns(done(Err))
           ELSE /\ catchains' = Put(catchains, q, RempCatchainWrapper_create(NewObj))
                /\ sessions' = Put(sessions, NewObj, NewSession(remp_catchain_info))
                /\ Returns(done(Ok(Unit)))
        /\ UNCHANGED <<maps, pc, call, trace>>

\* RempCatchainStore::start_catchain, lines 425-443: the first critical section
start_catchain(p, session_id) ==
    LET done(r) == [op |-> "start", session_id |-> session_id, ret |-> r]
    IN  /\ CallerIdle(p)
        /\ IF session_id \notin DOMAIN catchains
           THEN Returns(done(Err)) /\ UNCHANGED <<store_vars, pc, call>>
           ELSE LET cc == catchains[session_id]
                IN  CASE start_match(cc.status) = "start" ->
                           /\ catchains' = [catchains EXCEPT ![session_id].status = "Starting"]
                           /\ pc' = [pc EXCEPT ![p] = "start_io"]
                           /\ call' = [call EXCEPT ![p] =
                                         [session_id |-> session_id, info |-> cc.info]]
                           /\ NoReturn
                           /\ UNCHANGED sessions
                      [] start_match(cc.status) = "fail" ->
                           Returns(done(Err)) /\ UNCHANGED <<store_vars, pc, call>>
                      [] start_match(cc.status) = "none" ->
                           Returns(done(Ok(Unit))) /\ UNCHANGED <<store_vars, pc, call>>
        /\ UNCHANGED <<maps, trace>>

\* mutant: a failed session start puts the entry back to Created
start_session_rolls_back(p) ==
    /\ pc[p] = "start_io"
    /\ \E ok \in BOOLEAN :
          IF ok
          THEN /\ sessions' = [sessions EXCEPT ![call[p].info].starts = @ + 1,
                                               ![call[p].info].running = TRUE]
               /\ pc' = [pc EXCEPT ![p] = "set_session"]
               /\ NoReturn
               /\ UNCHANGED <<call, catchains>>
          ELSE /\ sessions' = [sessions EXCEPT ![call[p].info].starts = @ + 1]
               /\ pc' = [pc EXCEPT ![p] = "idle"]
               /\ call' = [call EXCEPT ![p] = Idle]
               /\ catchains' = [catchains EXCEPT ![call[p].session_id].status = "Created"]
               /\ Returns([op |-> "start", session_id |-> call[p].session_id,
                           ret |-> Err])
    /\ UNCHANGED <<maps, trace>>

\* RempCatchainInfo::start, line 449, outside the lock: the engine takes the
\* validator list, the options are there and the catchain is constructed, or
\* the call fails and start_catchain returns the error
start_session(p) ==
    /\ pc[p] = "start_io"
    /\ \E ok \in BOOLEAN :
          IF ok
          THEN /\ sessions' = [sessions EXCEPT ![call[p].info].starts = @ + 1,
                                               ![call[p].info].running = TRUE]
               /\ pc' = [pc EXCEPT ![p] = "set_session"]
               /\ NoReturn
               /\ UNCHANGED call
          ELSE /\ sessions' = [sessions EXCEPT ![call[p].info].starts = @ + 1]
               /\ pc' = [pc EXCEPT ![p] = "idle"]
               /\ call' = [call EXCEPT ![p] = Idle]
               /\ Returns([op |-> "start", session_id |-> call[p].session_id,
                           ret |-> Err])
    /\ UNCHANGED <<maps, catchains, trace>>

\* mutant: the handle is not stored
set_session_skipped(p) ==
    /\ pc[p] = "set_session"
    /\ pc' = [pc EXCEPT ![p] = "set_active"]
    /\ NoReturn
    /\ UNCHANGED <<maps, catchains, sessions, call, trace>>

\* RempCatchainInfo::set_session, line 450
set_session(p) ==
    /\ pc[p] = "set_session"
    /\ sessions' = [sessions EXCEPT ![call[p].info].catchain_ptr = Some(CatchainHandle)]
    /\ pc' = [pc EXCEPT ![p] = "set_active"]
    /\ NoReturn
    /\ UNCHANGED <<maps, catchains, call, trace>>

\* RempCatchainStore::start_catchain, lines 451-456: the second critical section
start_set_active(p) ==
    LET session_id == call[p].session_id
        r == IF session_id \in DOMAIN catchains
             THEN set_active(catchains[session_id])
             ELSE [err |-> FALSE]
    IN  /\ pc[p] = "set_active"
        /\ catchains' = IF session_id \in DOMAIN catchains
                        THEN [catchains EXCEPT ![session_id] = r.rcw]
                        ELSE catchains
        /\ StoreReturn(p, [op |-> "start", session_id |-> session_id,
                           ret |-> IF r.err THEN Err ELSE Ok(Unit)])
        /\ sessions' = Collect(sessions, catchains', pc', call')
        /\ UNCHANGED <<maps, trace>>

\* RempCatchainStore::stop_catchain, lines 463-477 and, when the refcount stays
\* positive, the fail! of line 485
stop_catchain(p, session_id) ==
    LET done(r) == [op |-> "stop", session_id |-> session_id, ret |-> r]
    IN  /\ CallerIdle(p)
        /\ IF session_id \notin DOMAIN catchains
           THEN Returns(done(Err)) /\ UNCHANGED <<store_vars, pc, call>>
           ELSE LET catchain == catchains[session_id]
                IN  IF ~stop_allowed(catchain)
                    THEN Returns(done(Err)) /\ UNCHANGED <<store_vars, pc, call>>
                    ELSE \E overflow_checks \in BOOLEAN :
                         IF detach_underflows(catchain) /\ overflow_checks
                         THEN Returns(done(Panicked)) /\ UNCHANGED <<store_vars, pc, call>>
                         ELSE IF detach(catchain).count = 0
                         THEN /\ catchains' = [catchains EXCEPT ![session_id] =
                                     [detach(catchain) EXCEPT !.status = "Stopping"]]
                              /\ pc' = [pc EXCEPT ![p] = "stop_io"]
                              /\ call' = [call EXCEPT ![p] =
                                     [session_id |-> session_id, info |-> catchain.info,
                                      session |-> sessions[catchain.info].catchain_ptr]]
                              /\ NoReturn
                              /\ sessions' = [sessions EXCEPT
                                     ![catchain.info].detached = TRUE]
                         ELSE /\ catchains' = [catchains EXCEPT ![session_id] =
                                                  detach(catchain)]
                              /\ sessions' = [sessions EXCEPT
                                     ![catchain.info].detached = TRUE]
                              /\ Returns(done(Err))
                              /\ UNCHANGED <<pc, call>>
        /\ UNCHANGED <<maps, trace>>

\* RempCatchainInfo::stop, line 480, outside the lock: the catchain, if there
\* is one, is told to stop; then the engine removes the validator list, or
\* fails and stop_catchain returns the error
stop_session(p) ==
    /\ pc[p] = "stop_io"
    /\ sessions' = IF call[p].session.some
                   THEN [sessions EXCEPT ![call[p].info].stops = @ + 1,
                                         ![call[p].info].running = FALSE]
                   ELSE sessions
    /\ \E ok \in BOOLEAN :
          IF ok
          THEN /\ pc' = [pc EXCEPT ![p] = "stop_remove"]
               /\ NoReturn
               /\ UNCHANGED call
          ELSE /\ pc' = [pc EXCEPT ![p] = "idle"]
               /\ call' = [call EXCEPT ![p] = Idle]
               /\ Returns([op |-> "stop", session_id |-> call[p].session_id,
                           ret |-> Err])
    /\ UNCHANGED <<maps, catchains, trace>>

\* RempCatchainStore::stop_catchain, lines 481-482: the second critical section
stop_remove(p) ==
    /\ pc[p] = "stop_remove"
    /\ catchains' = Drop(catchains, call[p].session_id)
    /\ StoreReturn(p, [op |-> "stop", session_id |-> call[p].session_id,
                       ret |-> Ok(Unit)])
    /\ sessions' = Collect(sessions, catchains', pc', call')
    /\ UNCHANGED <<maps, trace>>

\* RempCatchainStore::get_catchain_session
get_catchain_session(p, session_id) ==
    /\ CallerIdle(p)
    /\ Returns([op |-> "get_session", session_id |-> session_id,
                ret |-> IF session_id \in DOMAIN catchains
                        THEN sessions[catchains[session_id].info].catchain_ptr
                        ELSE None])
    /\ UNCHANGED <<maps, store_vars, pc, call, trace>>

(***************************************************************************)
(* RmqMessage::serialize and RmqMessage::deserialize: the record as it     *)
(* crosses the catchain.                                                   *)
(***************************************************************************)
\* `as i32` and `as u32`: the same 32 bits read as signed and as unsigned
AsI32(x) ==
    IF x[1] < Half \div 2 THEN x[1] * Half + x[2] ELSE (x[1] - Half) * Half + x[2]

\* mutant: a negative source_idx is read back as 0
AsU32_saturating(i) == IF i >= 0 THEN <<i \div Half, i % Half>> ELSE U32(0)

AsU32(i) ==
    IF i >= 0 THEN <<i \div Half, i % Half>> ELSE <<(i \div Half) + Half, i % Half>>

\* the whole RmqMessage (the cache model above keeps the two fields it reads)
RmqMessageFull(message, message_id, source_key, source_idx, timestamp, master_cc_seqno) ==
    [message |-> message, message_id |-> message_id, source_key |-> source_key,
     source_idx |-> source_idx, timestamp |-> timestamp,
     master_cc_seqno |-> master_cc_seqno]

\* RempAccepted with its third field, master_id
RempAcceptedWithMaster(l, b, m) ==
    [tag |-> "Accepted", level |-> l, block_id |-> b, error |-> "-", master_id |-> m]

\* RmqRecordStatus
RmqNew == [tag |-> "RmqNew"]
RmqAccepted(b) == [tag |-> "RmqAccepted", block_id |-> b]
RmqRejected(b, e) == [tag |-> "RmqRejected", block_id |-> b, error |-> e]

\* bytes: a serialized Message, a serialized RmqRecord, or bytes that are neither
write_to_bytes(message) == [boc |-> message]
serialize_tl_boxed_object(object) == [tl |-> object]
Junk == [junk |-> TRUE]
IsBoc(bytes) == DOMAIN bytes = {"boc"}
IsTl(bytes) == DOMAIN bytes = {"tl"}

\* mutant: a local-only status is written as an acceptance
rmq_status_of_keeps_block(status) ==
    CASE status.tag = "New" -> RmqNew
      [] status.tag = "Rejected" /\ status.level = "Collator" ->
            RmqRejected(status.block_id, status.error)
      [] OTHER -> RmqAccepted(status.block_id)

\* RmqMessage::serialize, the match of lines 87-108
rmq_status_of(status) ==
    CASE status.tag = "New" -> RmqNew
      [] status.tag = "Accepted" /\ status.level = "Collator" ->
            RmqAccepted(status.block_id)
      [] status.tag = "Rejected" /\ status.level = "Collator" ->
            RmqRejected(status.block_id, status.error)
      [] OTHER -> RmqNew

\* RmqMessage::serialize
serialize(self, status) ==
    serialize_tl_boxed_object(
        [message |-> write_to_bytes(self.message),
         message_id |-> self.message_id,
         source_key_id |-> self.source_key,
         source_idx |-> AsI32(self.source_idx),
         status |-> rmq_status_of(status)])

\* RmqMessage::deserialize, the match of lines 63-81
remp_status_of(rmq_status) ==
    CASE rmq_status.tag = "RmqNew" -> RempNew
      [] rmq_status.tag = "RmqAccepted" ->
            RempAcceptedWithMaster("Collator", rmq_status.block_id, BlockDefault)
      [] rmq_status.tag = "RmqRejected" ->
            RempRejected("Collator", rmq_status.block_id, rmq_status.error)

\* RmqMessage::deserialize; now is the clock read by timestamp_now
deserialize(raw, master_cc_seqno, now) ==
    IF ~IsTl(raw) THEN Err
    ELSE IF ~IsBoc(raw.tl.message) THEN Err
    ELSE Ok([msg |-> RmqMessageFull(raw.tl.message.boc, raw.tl.message_id,
                                    raw.tl.source_key_id, AsU32(raw.tl.source_idx),
                                    now, master_cc_seqno),
             status |-> remp_status_of(raw.tl.status)])

\* inputs of the codec
Bodies == {"b1", "b2"}
SourceIdxs == {U32(0), U32(1), <<Half \div 2 - 1, Half - 1>>, <<Half \div 2, 0>>, U32Max}
CodecMessages ==
    {RmqMessageFull(b, id, "k1", idx, U32(0), cc) :
        b \in Bodies, id \in MsgIds, idx \in SourceIdxs, cc \in SmallCc}
CodecStatuses ==
    StatusInputs \cup
    {RempAcceptedWithMaster(l, 1, m) : l \in Levels, m \in {BlockDefault, 2}} \cup
    {RempRejected("Shardchain", 1, "e")}
\* bytes that did not come out of serialize
BadWires ==
    {Junk, write_to_bytes("b1"),
     serialize_tl_boxed_object([message |-> Junk, message_id |-> "m1",
                                source_key_id |-> "k1", source_idx |-> 0,
                                status |-> RmqNew])}

\* serialize the record and status the caller holds, then deserialize the
\* bytes on the receiving side
codec_round_trip(p) ==
    /\ pc[p] = "codec"
    /\ Returns([op |-> "codec", m |-> call[p].m, s |-> call[p].s, cc |-> call[p].cc,
                wire |-> serialize(call[p].m, call[p].s),
                ret |-> deserialize(serialize(call[p].m, call[p].s),
                                    call[p].cc, call[p].now)])
    /\ pc' = [pc EXCEPT ![p] = "idle"]
    /\ call' = [call EXCEPT ![p] = Idle]
    /\ UNCHANGED <<maps, store_vars, trace>>

\* deserialize bytes that are not a record
codec_decode(p) ==
    /\ pc[p] = "decode"
    /\ Returns([op |-> "decode", wire |-> call[p].raw, cc |-> call[p].cc,
                ret |-> deserialize(call[p].raw, call[p].cc, call[p].now)])
    /\ pc' = [pc EXCEPT ![p] = "idle"]
    /\ call' = [call EXCEPT ![p] = Idle]
    /\ UNCHANGED <<maps, store_vars, trace>>

(***************************************************************************)
(* RempCatchainInfo as CatchainListener: preprocess_block and              *)
(* process_blocks, called by the running catchain, and the sends into the  *)
(* outbound channel by the producers.                                      *)
(***************************************************************************)
MaxActions == 2                 \* actions in one inbound payload
MaxInbound == 3                 \* items in the inbound channel
MaxSubmit == 3                  \* records ever sent into the outbound channel

\* validator_session::round::Message: a Commit, or a message of another kind
Commit(signature) == [kind |-> "Commit", signature |-> signature]
OtherAction == [kind |-> "Other"]

\* validator_session::BlockUpdate, serialized
BlockUpdate(actions) == serialize_tl_boxed_object([actions |-> actions])

\* the clock at the receiving side
Now == U32(1)

\* mutant: the decoded status is not looked at
delivers_any_status(decoded) == ~decoded.err

\* unpack_payload, lines 216-219: the action is decoded and its status is New
delivers(decoded) == ~decoded.err /\ decoded.v.status = RempNew

\* unpack_payload, lines 213-245: what the actions add to the inbound channel
RECURSIVE unpack_actions(_, _)
unpack_actions(actions, master_cc_seqno) ==
    IF actions = <<>> THEN <<>>
    ELSE LET msgbx == Head(actions)
             decoded == IF msgbx.kind = "Commit"
                        THEN deserialize(msgbx.signature, master_cc_seqno, Now)
                        ELSE Err
         IN  (IF delivers(decoded)
              THEN <<[msg |-> decoded.v.msg, status |-> decoded.v.status]>>
              ELSE <<>>)
             \o unpack_actions(Tail(actions), master_cc_seqno)

\* RempCatchainInfo::unpack_payload
unpack_payload(self, payload) ==
    IF IsTl(payload) /\ DOMAIN payload.tl = {"actions"}
    THEN unpack_actions(payload.tl.actions, self.info.master_cc_seqno)
    ELSE <<>>

\* the records of the peers and of the local producers
PeerM(id) == RmqMessageFull("b1", id, "k1", U32(1), U32(0), U32(1))
LocalM(id) == RmqMessageFull("b1", id, "k2", U32(0), U32(0), U32(0))

ActionInputs ==
    {Commit(serialize(PeerM(id), RempNew)) : id \in MsgIds} \cup
    {Commit(serialize(PeerM("m1"), RempAccepted("Collator", 1))),
     Commit(serialize(PeerM("m1"), RempRejected("Collator", 1, "e"))),
     Commit(Junk),
     OtherAction}

RECURSIVE SeqsUpTo(_, _)
SeqsUpTo(S, n) ==
    IF n = 0 THEN {<<>>}
    ELSE SeqsUpTo(S, n - 1) \cup
         {Append(q, x) : q \in {r \in SeqsUpTo(S, n - 1) : Len(r) = n - 1}, x \in S}

PayloadInputs == {BlockUpdate(a) : a \in SeqsUpTo(ActionInputs, MaxActions)} \cup {Junk}

\* CatchainListener::preprocess_block, called by the catchain of session o
preprocess_block(o, payload) ==
    /\ o \in DOMAIN sessions
    /\ sessions[o].running
    /\ Len(sessions[o].rmq_catchain) + MaxActions <= MaxInbound
    /\ sessions' = [sessions EXCEPT ![o].rmq_catchain =
                       @ \o unpack_payload(sessions[o], payload)]
    /\ Returns([op |-> "preprocess_block", info |-> o, payload |-> payload])
    /\ UNCHANGED <<maps, catchains, pc, call, trace>>

\* pending_messages_queue_sender.send, by any producer
submit(o, msg) ==
    /\ o \in DOMAIN sessions
    /\ Len(sessions[o].submitted) < MaxSubmit
    /\ sessions' = [sessions EXCEPT ![o].pending = Append(@, msg),
                                    ![o].submitted = Append(@, msg)]
    /\ NoReturn
    /\ UNCHANGED <<maps, catchains, pc, call, trace>>

\* CatchainListener::process_blocks, called by the catchain of session o on
\* its thread p: entry, with msg_vect empty
process_blocks(p, o, blocks) ==
    /\ CallerIdle(p)
    /\ o \in DOMAIN sessions
    /\ sessions[o].running
    /\ pc' = [pc EXCEPT ![p] = "drain"]
    /\ call' = [call EXCEPT ![p] = [info |-> o, blocks |-> blocks, msg_vect |-> <<>>]]
    /\ NoReturn
    /\ UNCHANGED <<maps, store_vars, trace>>

\* mutant: the loop takes the newest record first
process_blocks_recv_newest(p) ==
    LET o == call[p].info
        n == Len(sessions[o].pending)
    IN  /\ pc[p] = "drain"
        /\ IF n > 0
           THEN /\ sessions' = [sessions EXCEPT ![o].pending = SubSeq(@, 1, n - 1)]
                /\ call' = [call EXCEPT ![p].msg_vect =
                              Append(@, Commit(serialize(sessions[o].pending[n], RempNew)))]
                /\ UNCHANGED pc
           ELSE /\ pc' = [pc EXCEPT ![p] = "hand"]
                /\ UNCHANGED <<sessions, call>>
        /\ NoReturn
        /\ UNCHANGED <<maps, catchains, trace>>

\* process_blocks, lines 281-292: one try_recv of the loop
process_blocks_recv(p) ==
    LET o == call[p].info
    IN  /\ pc[p] = "drain"
        /\ IF sessions[o].pending # <<>>
           THEN /\ sessions' = [sessions EXCEPT ![o].pending = Tail(@)]
                /\ call' = [call EXCEPT ![p].msg_vect =
                              Append(@, Commit(serialize(Head(sessions[o].pending), RempNew)))]
                /\ UNCHANGED pc
           ELSE /\ pc' = [pc EXCEPT ![p] = "hand"]
                /\ UNCHANGED <<sessions, call>>
        /\ NoReturn
        /\ UNCHANGED <<maps, catchains, trace>>

\* process_blocks, lines 297-317: the payload is handed to the catchain, or
\* dropped when there is no handle
process_blocks_hand(p) ==
    LET o == call[p].info
        payload == BlockUpdate(call[p].msg_vect)
        delivered == sessions[o].catchain_ptr.some
    IN  /\ pc[p] = "hand"
        /\ pc' = [pc EXCEPT ![p] = "idle"]
        /\ call' = [call EXCEPT ![p] = Idle]
        /\ Returns([op |-> "process_blocks", info |-> o, blocks |-> call[p].blocks,
                    payload |-> payload, delivered |-> delivered])
        /\ sessions' = Collect(
              [sessions EXCEPT ![o].drained =
                  @ \o [i \in 1..Len(call[p].msg_vect) |->
                          [action |-> call[p].msg_vect[i], delivered |-> delivered]]],
              catchains, pc', call')
        /\ UNCHANGED <<maps, catchains, trace>>

(***************************************************************************)
(* Specifications.                                                         *)
(***************************************************************************)
InitCache ==
    /\ messages = EmptyMap
    /\ message_shards = EmptyMap
    /\ message_statuses = EmptyMap
    /\ catchains = EmptyMap
    /\ sessions = EmptyMap
    /\ pc = [p \in Procs |-> "idle"]
    /\ call = [p \in Procs |-> Idle]
    /\ last = NoCall

\* Spec: callers run concurrently on one shard; a step is one critical section
\* of one caller
Init == InitCache /\ trace = FALSE

Next ==
    \E p \in Procs :
        \/ \E id \in MsgIds : new_message_with_shard(p, RmqMessage(id, U32(0)), "S1")
        \/ \E id \in MsgIds : remove_message(p, id)
        \/ downgrade_accepted_by_collator(p, "S1")
        \/ \E id \in MsgIds, st \in StatusInputs : update_other(p, id, st)
        \/ \E id \in MsgIds, st \in StatusInputs : update_accepted(p, id, st)
        \/ update_write_duplicate(p)
        \/ update_get_status(p)
        \/ update_write(p)

Spec == Init /\ [][Next]_vars

\* SpecSeq: a single caller, so one call at a time, each run to its return;
\* the calls are recorded with their return value
InitSeq == InitCache /\ trace = TRUE

Caller == "p1"

NextSeq ==
    \/ \E id \in MsgIds, cc \in {U32(0), U32(1)}, sh \in Shards :
          new_message_with_shard(Caller, RmqMessage(id, cc), sh)
    \/ \E id \in MsgIds : remove_message(Caller, id)
    \/ \E sh \in Shards : downgrade_accepted_by_collator(Caller, sh)
    \/ \E id \in MsgIds, st \in StatusInputs : update_other(Caller, id, st)
    \/ \E id \in MsgIds, st \in StatusInputs : update_accepted(Caller, id, st)
    \/ update_write_duplicate(Caller)
    \/ update_get_status(Caller)
    \/ update_write(Caller)

SpecSeq == InitSeq /\ [][NextSeq]_vars

\* SpecExpiry: a single caller; records of every age, statuses of every kind
\* (on one block, so the duplicate rule never applies), and the expiry sweep
StatusInputsOneBlock == {st \in StatusInputs : st.block_id \in {BlockDefault, 1}}

NextExpiry ==
    \/ \E id \in MsgIds, cc \in SmallCc \cup TopCc :
          new_message_with_shard(Caller, RmqMessage(id, cc), "S1")
    \/ \E id \in MsgIds : remove_message(Caller, id)
    \/ \E cc \in CurrentCcs : get_old_messages(Caller, cc)
    \/ \E id \in MsgIds, st \in StatusInputsOneBlock : update_other(Caller, id, st)
    \/ \E id \in MsgIds, st \in StatusInputsOneBlock : update_accepted(Caller, id, st)
    \/ update_get_status(Caller)
    \/ update_write(Caller)

SpecExpiry == InitSeq /\ [][NextExpiry]_vars

\* SpecStore: callers of the store run concurrently on one queue_id; a step is
\* one critical section, or the session's start or stop outside the lock
StoreInfos == {InfoA("q1"), [InfoA("q1") EXCEPT !.shard = "S2"]}

NextStore ==
    \E p \in Procs :
        \/ \E info \in StoreInfos : create_catchain(p, info)
        \/ start_catchain(p, "q1")
        \/ start_session(p)
        \/ set_session(p)
        \/ start_set_active(p)
        \/ stop_catchain(p, "q1")
        \/ stop_session(p)
        \/ stop_remove(p)
        \/ get_catchain_session(p, "q1")

SpecStore == InitSeq /\ [][NextStore]_vars

\* SpecStoreSeq: a single caller of the store, two queue_ids, every info on
\* the first of them
SeqInfos == InfoInputs("q1") \cup {InfoA("q2")}

NextStoreSeq ==
    \/ \E info \in SeqInfos : create_catchain(Caller, info)
    \/ \E q \in QueueIds : start_catchain(Caller, q)
    \/ start_session(Caller)
    \/ set_session(Caller)
    \/ start_set_active(Caller)
    \/ \E q \in QueueIds : stop_catchain(Caller, q)
    \/ stop_session(Caller)
    \/ stop_remove(Caller)
    \/ \E q \in QueueIds : get_catchain_session(Caller, q)

SpecStoreSeq == InitSeq /\ [][NextStoreSeq]_vars

\* SpecCodec: the caller holds a record of any kind with any status, or bytes
\* that are not a record; the record is serialized and deserialized again
InitCodec ==
    /\ messages = EmptyMap
    /\ message_shards = EmptyMap
    /\ message_statuses = EmptyMap
    /\ catchains = EmptyMap
    /\ sessions = EmptyMap
    /\ trace = TRUE
    /\ last = NoCall
    /\ \E cc \in SmallCc, now \in SmallCc :
          \/ \E m \in CodecMessages, s \in CodecStatuses :
                /\ pc = [p \in Procs |-> IF p = Caller THEN "codec" ELSE "idle"]
                /\ call = [p \in Procs |-> IF p = Caller
                                           THEN [m |-> m, s |-> s, cc |-> cc, now |-> now]
                                           ELSE Idle]
          \/ \E raw \in BadWires :
                /\ pc = [p \in Procs |-> IF p = Caller THEN "decode" ELSE "idle"]
                /\ call = [p \in Procs |-> IF p = Caller
                                           THEN [raw |-> raw, cc |-> cc, now |-> now]
                                           ELSE Idle]

NextCodec ==
    \/ codec_round_trip(Caller)
    \/ codec_decode(Caller)

SpecCodec == InitCodec /\ [][NextCodec]_vars

\* SpecInbound and SpecOutbound: one session, created once; its store calls are
\* made by Caller, the catchain calls the listener on its own thread
CatchainThread == "p2"
BlocksInputs == {<<>>, <<"block">>}

create_once(p) ==
    /\ "q1" \notin DOMAIN catchains
    /\ create_catchain(p, InfoA("q1"))

\* SpecInbound: the catchain delivers payloads of every shape
NextInbound ==
    \/ create_once(Caller)
    \/ start_catchain(Caller, "q1")
    \/ start_session(Caller)
    \/ set_session(Caller)
    \/ start_set_active(Caller)
    \/ stop_catchain(Caller, "q1")
    \/ stop_session(Caller)
    \/ stop_remove(Caller)
    \/ \E o \in ObjIds, payload \in PayloadInputs : preprocess_block(o, payload)

SpecInbound == InitSeq /\ [][NextInbound]_vars

\* SpecOutbound: producers send at any time, also during a process_blocks
NextOutbound ==
    \/ create_once(Caller)
    \/ start_catchain(Caller, "q1")
    \/ start_session(Caller)
    \/ set_session(Caller)
    \/ start_set_active(Caller)
    \/ stop_catchain(Caller, "q1")
    \/ stop_session(Caller)
    \/ stop_remove(Caller)
    \/ \E o \in ObjIds, id \in MsgIds : submit(o, LocalM(id))
    \/ \E o \in ObjIds, blocks \in BlocksInputs :
          process_blocks(CatchainThread, o, blocks)
    \/ process_blocks_recv(CatchainThread)
    \/ process_blocks_hand(CatchainThread)

SpecOutbound == InitSeq /\ [][NextOutbound]_vars

(***************************************************************************)
(* Properties.                                                             *)
(***************************************************************************)
IsFinal(s) == IsAcceptedAt(s, "Masterchain") \/ s.tag \in {"Rejected", "Duplicate", "Timeout"}
InFlight(p, id) == pc[p] # "idle" /\ call[p].message_id = id

\* C1: in every reachable state the bodies, shards and statuses maps have the
\* same key set.
KeySetInvariant ==
    /\ DOMAIN messages = DOMAIN message_shards
    /\ DOMAIN message_shards = DOMAIN message_statuses

\* C1 witness: one message cached with a status past New, the other absent,
\* while a caller is in the middle of an update
KeySetWitness ==
    \E id \in DOMAIN messages, p \in Procs :
        /\ message_statuses[id].tag = "Ignored"
        /\ DOMAIN messages # MsgIds
        /\ pc[p] = "write"

\* C2: every change of the stored status of a message that stays cached is an
\* edge of the transition table or the duplicate shortcut
\* Accepted{Collator,B_old} -> Duplicate{B_new} with B_new # B_old, and a
\* final status (Accepted{Masterchain}, Rejected, Duplicate, Timeout) never
\* changes.
StatusPath ==
    [][\A id \in MsgIds :
          (/\ id \in DOMAIN message_statuses
           /\ id \in DOMAIN message_statuses'
           /\ message_statuses'[id] # message_statuses[id])
          => /\ ~IsFinal(message_statuses[id])
             /\ \/ TableEdge(message_statuses[id], message_statuses'[id])
                \/ DuplicateEdge(message_statuses[id], message_statuses'[id])]_vars

\* C2 witness: a Duplicate stored for a message on which another caller's
\* update is still in flight
StatusPathWitness ==
    \E id \in DOMAIN message_statuses, p \in Procs :
        /\ message_statuses[id].tag = "Duplicate"
        /\ InFlight(p, id)
        /\ pc[p] = "write_duplicate"

\* C6: update_status is atomic: the write of the duplicate rule replaces the
\* very status value on which the rule was decided (Accepted by the collator
\* for block old_block_id).
UpdateStatusAtomic ==
    [][\A p \in Procs :
          (/\ pc[p] = "write_duplicate"
           /\ pc'[p] = "idle"
           /\ message_statuses' # message_statuses)
          => message_statuses[call[p].message_id]
                = RempAccepted("Collator", call[p].old_block_id)]_vars

(***************************************************************************)
(* Contracts of single calls, stated on the step in which the call         *)
(* returns: the unprimed maps are the cache the call found, the primed     *)
(* maps the cache it left, last' the call and its result.                  *)
(***************************************************************************)
UpdateReturns(id) == last'.op = "update" /\ last'.message_id = id
Stored(id) == message_statuses[id]

DuplicateDropsAccepted ==
    [][\A id \in MsgIds :
          (/\ UpdateReturns(id)
           /\ id \in DOMAIN message_statuses
           /\ Stored(id).tag = "Duplicate"
           /\ last'.new.tag = "Accepted")
          => /\ last'.ret = Ok(None)
             /\ maps' = maps]_vars

\* C4 witness: a masterchain acceptance has just been dropped on a Duplicate
DuplicateDropsAcceptedWitness ==
    /\ last.op = "update"
    /\ last.new.tag = "Accepted"
    /\ last.new.level = "Masterchain"
    /\ last.ret = Ok(None)
    /\ message_statuses[last.message_id].tag = "Duplicate"
    /\ message_statuses[last.message_id].block_id # last.new.block_id

\* the moves update_status rejects: those that neither the duplicate rule nor
\* the drop of an acceptance of a Duplicate handles, and that are neither an
\* edge of the table nor the duplicate shortcut
HandledByDuplicateRules(old, new) ==
    /\ new.tag = "Accepted"
    /\ \/ old.tag = "Duplicate"
       \/ /\ IsAcceptedAt(old, "Collator")
          /\ new.level \in {"Shardchain", "Masterchain"}
          /\ new.block_id # old.block_id
IllegalMove(old, new) ==
    /\ ~HandledByDuplicateRules(old, new)
    /\ ~TableEdge(old, new)
    /\ ~DuplicateEdge(old, new)

InsertIdempotent ==
    [][last'.op = "insert"
       => LET id == last'.message.message_id
          IN  IF id \in DOMAIN messages
              THEN /\ last'.ret = [inserted |-> FALSE,
                                   size |-> Cardinality(DOMAIN messages)]
                   /\ maps' = maps
              ELSE /\ last'.ret = [inserted |-> TRUE,
                                   size |-> Cardinality(DOMAIN messages) + 1]
                   /\ DOMAIN messages' = DOMAIN messages \cup {id}
                   /\ messages'[id] = last'.message
                   /\ message_shards'[id] = last'.shard
                   /\ message_statuses'[id] = RempNew
                   /\ \A o \in DOMAIN messages :
                         /\ messages'[o] = messages[o]
                         /\ message_shards'[o] = message_shards[o]
                         /\ message_statuses'[o] = message_statuses[o]]_vars

\* C7 witness: a second insert of an id, with another body and shard, has just
\* returned false on an entry whose status is no longer New
InsertIdempotentWitness ==
    /\ last.op = "insert"
    /\ ~last.ret.inserted
    /\ last.ret.size = 2
    /\ messages[last.message.message_id] # last.message
    /\ message_shards[last.message.message_id] # last.shard
    /\ message_statuses[last.message.message_id].tag = "Timeout"

\* the entries downgrade_accepted_by_collator(shard) is to change
ToDowngrade(shard) ==
    {id \in DOMAIN message_statuses :
        message_shards[id] = shard /\ IsAcceptedAt(message_statuses[id], "Collator")}

\* C10: downgrade_accepted_by_collator(S) turns exactly the entries of shard S
\* with status Accepted{Collator,B} into Ignored{Collator,B} and returns each
\* once with its new status; every other entry and the bodies and shards maps
\* are unchanged; a call that follows at once returns the empty batch and
\* changes nothing.
DowngradeExact ==
    [][last'.op = "downgrade"
       => LET batch == last'.ret
              sel == ToDowngrade(last'.shard)
          IN  /\ messages' = messages
              /\ message_shards' = message_shards
              /\ DOMAIN message_statuses' = DOMAIN message_statuses
              /\ \A id \in DOMAIN message_statuses :
                    message_statuses'[id] =
                        IF id \in sel
                        THEN RempIgnored("Collator", message_statuses[id].block_id)
                        ELSE message_statuses[id]
              /\ Len(batch) = Cardinality(sel)
              /\ \A id \in sel :
                    \E i \in 1..Len(batch) :
                        batch[i] = [msg |-> messages[id],
                                    status |-> message_statuses'[id]]
              /\ (last.op = "downgrade" /\ last.shard = last'.shard)
                    => batch = <<>> /\ maps' = maps]_vars

\* C10 witness: a downgrade has just returned one message, and a message of
\* the other shard is still Accepted{Collator}
DowngradeWitness ==
    /\ last.op = "downgrade"
    /\ Len(last.ret) = 1
    /\ \E id \in DOMAIN message_statuses :
          /\ message_shards[id] # last.shard
          /\ IsAcceptedAt(message_statuses[id], "Collator")
    /\ \E id \in DOMAIN message_statuses :
          /\ message_shards[id] = last.shard
          /\ message_statuses[id].tag = "Ignored"

(***************************************************************************)
(* The expiry sweep.                                                       *)
(***************************************************************************)
\* master_cc_seqno + 2 <= current_cc over the integers: a sum past 2^32 - 1
\* exceeds every current_cc
ExpiredAt(msg, current_cc) ==
    /\ ~U32AddOverflows(msg.master_cc_seqno, 2)
    /\ U32Le(U32WrappingAdd(msg.master_cc_seqno, 2), current_cc)

Occurrences(list, msg) == Cardinality({i \in 1..Len(list) : list[i].msg = msg})

\* C8: get_old_messages(cc) returns exactly the cached records with
\* master_cc_seqno + 2 <= cc, each once, and does not modify the cache.
GetOldExact ==
    [][last'.op = "get_old"
       => /\ ~last'.ret.panic
          /\ \A id \in DOMAIN messages :
                Occurrences(last'.ret.list, messages[id]) =
                    IF ExpiredAt(messages[id], last'.current_cc) THEN 1 ELSE 0
          /\ Len(last'.ret.list) =
                Cardinality({id \in DOMAIN messages :
                                ExpiredAt(messages[id], last'.current_cc)})
          /\ maps' = maps]_vars

\* C8, on the records whose seqno is small: the sweep has just returned the
\* record of age cc - 2 and not the record of age cc - 1
GetOldBoundaryWitness ==
    /\ last.op = "get_old"
    /\ last.current_cc = U32(2)
    /\ DOMAIN messages = MsgIds
    /\ {messages[id].master_cc_seqno : id \in MsgIds} = {U32(0), U32(1)}
    /\ Len(last.ret.list) = 1
    /\ last.ret.list[1].msg.master_cc_seqno = U32(0)

\* C9: each record the sweep returns is proposed None if its current status
\* is Accepted{Masterchain}, Rejected or Duplicate, and Some(Timeout) if it is
\* anything else.
OldProposals ==
    [][last'.op = "get_old"
       => \A i \in 1..Len(last'.ret.list) :
             LET e == last'.ret.list[i]
                 st == message_statuses[e.msg.message_id]
             IN  /\ e.msg.message_id \in DOMAIN message_statuses
                 /\ e.ns = None <=> \/ IsAcceptedAt(st, "Masterchain")
                                    \/ st.tag \in {"Rejected", "Duplicate"}
                 /\ e.ns # None <=> e.ns = Some(RempTimeout)
                 /\ e.ns = Some(RempTimeout) <=>
                        \/ st.tag \in {"New", "Ignored", "Timeout"}
                        \/ IsAcceptedAt(st, "Collator")
                        \/ IsAcceptedAt(st, "Shardchain")]_vars

\* C9 witness: the sweep has just returned a Duplicate with None and an
\* Accepted{Shardchain} with Some(Timeout)
OldProposalsWitness ==
    /\ last.op = "get_old"
    /\ Len(last.ret.list) = 2
    /\ \E i, j \in 1..2 :
          /\ last.ret.list[i].ns = None
          /\ message_statuses[last.ret.list[i].msg.message_id].tag = "Duplicate"
          /\ last.ret.list[j].ns = Some(RempTimeout)
          /\ IsAcceptedAt(message_statuses[last.ret.list[j].msg.message_id], "Shardchain")

(***************************************************************************)
(* Properties of the catchain store.                                       *)
(***************************************************************************)
\* the status of the entry of q, "absent" when the store has none
StatusOf(cs, q) == IF q \in DOMAIN cs THEN cs[q].status ELSE "absent"
CountOf(q) == catchains[q].count
SessionOf(q) == sessions[catchains[q].info]

LifecycleEdge(old, new) ==
    \/ old = new
    \/ old = "absent" /\ new = "Created"
    \/ old = "Created" /\ new = "Starting"
    \/ old = "Starting" /\ new = "Active"
    \/ old = "Active" /\ new = "Stopping"
    \/ old = "Stopping" /\ new = "absent"

(* C11: under every interleaving of create, start and stop, the status of  *)
(* the entry of a queue_id moves only one edge at a time along             *)
(* Created -> Starting -> Active -> Stopping -> removed: no state is       *)
(* skipped, none is gone back to, an entry always begins as Created and is *)
(* deleted only while it is Stopping.                                      *)
LifecycleOrder ==
    [][\A q \in QueueIds :
          LifecycleEdge(StatusOf(catchains, q), StatusOf(catchains', q))]_vars

\* a stop has just removed the entry: the whole path was walked
LifecycleWitness ==
    /\ last.op = "stop"
    /\ last.ret = Ok(Unit)
    /\ "q1" \notin DOMAIN catchains

(* C12: create(info) on a queue_id with no entry inserts an entry with     *)
(* status Created, refcount 1 and this info; on an entry whose stored info *)
(* is the same catchain it succeeds, adds exactly 1 to the refcount and    *)
(* leaves status and stored info as they are; hence an entry from which no *)
(* stop has detached has a refcount equal to the number of successful      *)
(* creates.                                                                *)
CreateContract ==
    /\ [][last'.op = "create" =>
            LET info == last'.info
                q == info.queue_id
            IN  IF q \notin DOMAIN catchains
                THEN /\ last'.ret = Ok(Unit)
                     /\ q \in DOMAIN catchains'
                     /\ catchains'[q].status = "Created"
                     /\ catchains'[q].count = 1
                     /\ sessions'[catchains'[q].info].info = info
                     /\ sessions'[catchains'[q].info].catchain_ptr = None
                ELSE SessionOf(q).info = info =>
                     /\ last'.ret = Ok(Unit)
                     /\ catchains'[q].count = CountOf(q) + 1
                     /\ catchains'[q].status = catchains[q].status
                     /\ catchains'[q].info = catchains[q].info
                     /\ sessions'[catchains'[q].info].info = info
                     /\ sessions'[catchains'[q].info].catchain_ptr
                            = SessionOf(q).catchain_ptr]_vars
    /\ [](\A q \in DOMAIN catchains :
             ~SessionOf(q).detached => CountOf(q) = SessionOf(q).creates)

\* the third create of a started entry that was never stopped
CreateContractWitness ==
    /\ last.op = "create"
    /\ last.ret = Ok(Unit)
    /\ "q1" \in DOMAIN catchains
    /\ last.info = SessionOf("q1").info
    /\ catchains["q1"].status = "Active"
    /\ CountOf("q1") = 3
    /\ ~SessionOf("q1").detached

\* the stored info a and the offered info b differ in one of the six fields
DiffersFrom(a, b) ==
    \/ a.nodes_len # b.nodes_len
    \/ a.local_idx # b.local_idx
    \/ a.local_key_id # b.local_key_id
    \/ a.node_list_id # b.node_list_id
    \/ a.master_cc_seqno # b.master_cc_seqno
    \/ a.shard # b.shard

(* C13: create(info) on a queue_id whose entry stores an info that differs *)
(* from the offered one in node-list length, local_idx, local_key_id,      *)
(* node_list_id, master_cc_seqno or shard fails, and the entry (info,      *)
(* status, refcount) and its session stay as they were.                    *)
CreateCollisionFails ==
    [][\A q \in QueueIds :
          (/\ last'.op = "create"
           /\ last'.info.queue_id = q
           /\ q \in DOMAIN catchains
           /\ DiffersFrom(SessionOf(q).info, last'.info))
          => /\ last'.ret = Err
             /\ UNCHANGED store_vars]_vars

\* a create that differs in master_cc_seqno alone is refused on an entry that
\* had been created twice and started
CreateCollisionWitness ==
    /\ last.op = "create"
    /\ last.ret = Err
    /\ "q1" \in DOMAIN catchains
    /\ SessionOf("q1").info = InfoA("q1")
    /\ last.info = [InfoA("q1") EXCEPT !.master_cc_seqno = U32(1)]
    /\ catchains["q1"].status = "Active"
    /\ CountOf("q1") = 2

\* the call that returns in this step is a start, or a stop, of q
StartReturns(q) == last'.op = "start" /\ last'.session_id = q
StopReturns(q) == last'.op = "stop" /\ last'.session_id = q

\* the idle caller p issues start(q) in this step: the call either returns at
\* once or goes on to the session start
StartIssued(p, q) ==
    /\ pc[p] = "idle"
    /\ \/ StartReturns(q) /\ pc' = pc
       \/ pc'[p] = "start_io" /\ call'[p].session_id = q

(* C14: start(queue_id) on a Created entry sets Starting, then performs    *)
(* the session start once and, when that succeeded, sets Active and        *)
(* returns success; on an Active entry it returns success with no session  *)
(* start and no change; on a Starting or Stopping entry, or with no entry, *)
(* it fails with no change.                                                *)
StartContract ==
    [][\A q \in QueueIds :
          /\ StartIssued(Caller, q) =>
                CASE StatusOf(catchains, q) = "Created" ->
                       /\ pc'[Caller] = "start_io"
                       /\ catchains' = [catchains EXCEPT ![q].status = "Starting"]
                       /\ UNCHANGED sessions
                  [] StatusOf(catchains, q) = "Active" ->
                       /\ last'.ret = Ok(Unit)
                       /\ UNCHANGED store_vars
                  [] OTHER ->
                       /\ last'.ret = Err
                       /\ UNCHANGED store_vars
          /\ (pc[Caller] = "start_io" /\ call[Caller].session_id = q) =>
                /\ sessions'[catchains'[q].info].starts = SessionOf(q).starts + 1
                /\ pc'[Caller] \in {"set_session", "idle"}
                /\ UNCHANGED catchains
          /\ (pc[Caller] = "set_active" /\ call[Caller].session_id = q) =>
                /\ StartReturns(q)
                /\ last'.ret = Ok(Unit)
                /\ catchains' = [catchains EXCEPT ![q].status = "Active"]
                /\ catchains[q].status = "Starting"
                /\ sessions'[catchains'[q].info].starts = 1]_vars

\* a start has returned success on an entry created twice, whose session was
\* started once
StartContractWitness ==
    /\ last.op = "start"
    /\ last.ret = Ok(Unit)
    /\ "q1" \in DOMAIN catchains
    /\ catchains["q1"].status = "Active"
    /\ CountOf("q1") = 2
    /\ SessionOf("q1").starts = 1
    /\ SessionOf("q1").catchain_ptr = Some(CatchainHandle)

\* the callers whose session start or session stop for q is in flight
IoInFlight(q) ==
    {p \in Procs : pc[p] \in {"start_io", "stop_io"} /\ call[p].session_id = q}

(* C15: under every interleaving of concurrent starts and stops on one     *)
(* queue_id, at most one session start or session stop is in flight at a   *)
(* time, a session is started at most once and stopped at most once, and a *)
(* start or stop issued while the entry is Starting or Stopping goes no    *)
(* further than its first critical section and returns an error.           *)
StartStopExclusion ==
    /\ [](\A q \in QueueIds : Cardinality(IoInFlight(q)) <= 1)
    /\ [](\A o \in DOMAIN sessions : sessions[o].starts <= 1 /\ sessions[o].stops <= 1)
    /\ [][\A q \in QueueIds :
             StatusOf(catchains, q) \in {"Starting", "Stopping"} =>
                /\ \A p \in Procs :
                      ~(/\ pc[p] = "idle"
                        /\ pc'[p] \in {"start_io", "stop_io"}
                        /\ call'[p].session_id = q)
                /\ ((StartReturns(q) \/ StopReturns(q)) /\ pc' = pc) =>
                      (last'.ret = Err /\ UNCHANGED store_vars)]_vars

\* a stop was refused while the session start of the other caller is in flight
StartStopExclusionWitness ==
    /\ pc["p1"] = "start_io"
    /\ call["p1"].session_id = "q1"
    /\ catchains["q1"].status = "Starting"
    /\ last.op = "stop"
    /\ last.ret = Err

\* the idle caller p issues stop(q) in this step
StopIssued(p, q) ==
    /\ pc[p] = "idle"
    /\ \/ StopReturns(q) /\ pc' = pc
       \/ pc'[p] = "stop_io" /\ call'[p].session_id = q

(* C16: stop(queue_id) on an Active entry with refcount n > 1 returns      *)
(* success, leaves the entry Active with refcount n - 1 and does not stop  *)
(* the session; only a stop that finds refcount 1 goes on to stop the      *)
(* session and to remove the entry.                                        *)
SharedStopSucceeds ==
    [][\A q \in QueueIds :
          (StopIssued(Caller, q) /\ StatusOf(catchains, q) = "Active") =>
             IF CountOf(q) > 1
             THEN /\ StopReturns(q)
                  /\ last'.ret = Ok(Unit)
                  /\ catchains' = [catchains EXCEPT ![q].count = CountOf(q) - 1]
                  /\ sessions'[catchains'[q].info].stops = SessionOf(q).stops
                  /\ UNCHANGED pc
             ELSE /\ pc'[Caller] = "stop_io"
                  /\ StatusOf(catchains', q) = "Stopping"]_vars

(* C17: stop(queue_id) with no entry, or on an entry that is Created,      *)
(* Starting or Stopping, returns an error at once and leaves the store,    *)
(* the refcount included, as it was.                                       *)
RejectedStopLeavesEntry ==
    [][\A q \in QueueIds :
          (StopIssued(Caller, q) /\ StatusOf(catchains, q) # "Active") =>
             /\ StopReturns(q)
             /\ last'.ret = Err
             /\ UNCHANGED store_vars
             /\ UNCHANGED pc]_vars

\* a stop was refused on an entry created twice and not yet started
RejectedStopWitness ==
    /\ last.op = "stop"
    /\ last.ret = Err
    /\ "q1" \in DOMAIN catchains
    /\ catchains["q1"].status = "Created"
    /\ CountOf("q1") = 2

(* C18: under every interleaving of create, start and stop on one          *)
(* queue_id, an entry leaves the store only with refcount 0: every         *)
(* successful create has been matched by a stop by then, a create that ran *)
(* while the entry was Stopping included.                                  *)
RemovedAtZero ==
    [][\A q \in QueueIds :
          (q \in DOMAIN catchains /\ q \notin DOMAIN catchains') =>
             CountOf(q) = 0]_vars

\* set_session has not run yet on the session of the entry of q
BeforeStartCompleted(q) ==
    /\ catchains[q].status \in {"Created", "Starting"}
    /\ \A p \in Procs : ~(pc[p] = "set_active" /\ call[p].session_id = q)

(* C19: the catchain_ptr of a session is None in every state before its    *)
(* start has completed and in every state after its stop has begun, that   *)
(* is, while its entry is Stopping and once it is out of the store.        *)
CatchainPtrWindow ==
    /\ \A q \in DOMAIN catchains :
          (BeforeStartCompleted(q) \/ catchains[q].status = "Stopping")
             => SessionOf(q).catchain_ptr = None
    /\ \A o \in DOMAIN sessions :
          o \notin {catchains[q].info : q \in DOMAIN catchains}
             => sessions[o].catchain_ptr = None

(* C20: when the session start performed by start(queue_id) fails, the     *)
(* call returns the error, the entry stays in the store with status        *)
(* Starting and the refcount it had, and catchain_ptr stays None.          *)
FailedStartLeavesStarting ==
    [][\A q \in QueueIds :
          (/\ pc[Caller] = "start_io"
           /\ call[Caller].session_id = q
           /\ pc'[Caller] # "set_session")
          => /\ StartReturns(q)
             /\ last'.ret = Err
             /\ pc'[Caller] = "idle"
             /\ catchains[q].status = "Starting"
             /\ UNCHANGED catchains
             /\ sessions'[catchains'[q].info].catchain_ptr = None]_vars

\* a start has failed in the session start of an entry created twice
FailedStartWitness ==
    /\ last.op = "start"
    /\ last.ret = Err
    /\ "q1" \in DOMAIN catchains
    /\ catchains["q1"].status = "Starting"
    /\ CountOf("q1") = 2
    /\ SessionOf("q1").starts = 1
    /\ SessionOf("q1").catchain_ptr = None

(***************************************************************************)
(* Properties of the listener and of the codec.                            *)
(***************************************************************************)
\* the items that the Commit actions of a payload which decode with status New
\* stand for, in the order of the payload, as a session of seqno cc reads them
NewCommits(payload, cc) ==
    IF ~(IsTl(payload) /\ DOMAIN payload.tl = {"actions"}) THEN <<>>
    ELSE LET IsNewCommit(a) ==
                 /\ a.kind = "Commit"
                 /\ ~deserialize(a.signature, cc, Now).err
                 /\ deserialize(a.signature, cc, Now).v.status.tag = "New"
             sel == SelectSeq(payload.tl.actions, IsNewCommit)
         IN  [i \in 1..Len(sel) |->
                 [msg |-> [deserialize(sel[i].signature, cc, Now).v.msg
                              EXCEPT !.master_cc_seqno = cc],
                  status |-> RempNew]]

(* C21: preprocess_block appends to the inbound channel, after what is     *)
(* there, exactly the Commit actions of the payload that decode with       *)
(* status New, in payload order, each with the session's master_cc_seqno;  *)
(* actions decoded as Accepted or Rejected, actions of another kind and    *)
(* undecodable ones add nothing and do not stop later actions; so every    *)
(* item of the inbound channel has status New.                             *)
InboundExact ==
    /\ [][last'.op = "preprocess_block" =>
             LET o == last'.info
             IN  sessions'[o].rmq_catchain =
                    sessions[o].rmq_catchain \o
                    NewCommits(last'.payload, sessions[o].info.master_cc_seqno)]_vars
    /\ [](\A o \in DOMAIN sessions :
             \A i \in 1..Len(sessions[o].rmq_catchain) :
                sessions[o].rmq_catchain[i].status = RempNew)

\* after an earlier payload, a payload of an undecodable commit and a New
\* commit has added its New commit alone
InboundExactWitness ==
    /\ last.op = "preprocess_block"
    /\ last.payload = BlockUpdate(<<Commit(Junk),
                                    Commit(serialize(PeerM("m2"), RempNew))>>)
    /\ Len(sessions[last.info].rmq_catchain) = 2
    /\ sessions[last.info].rmq_catchain[1].msg.message_id = "m1"
    /\ sessions[last.info].rmq_catchain[2].msg.message_id = "m2"
    /\ sessions[last.info].rmq_catchain[2].msg.master_cc_seqno = U32(0)

\* the Commit actions that encode the records of a sequence with status New
Encoded(records) ==
    [i \in 1..Len(records) |-> Commit(serialize(records[i], RempNew))]

\* the actions that process_blocks has taken out of the channel of session o
\* in the round it is in
InRound(o) ==
    IF pc[CatchainThread] \in ListenerPcs /\ call[CatchainThread].info = o
    THEN call[CatchainThread].msg_vect ELSE <<>>

Taken(o) == [i \in 1..Len(sessions[o].drained) |-> sessions[o].drained[i].action]

(* C22: a process_blocks that finds the catchain handle hands over one     *)
(* payload whose actions are the records taken from the pending channel in *)
(* this round, in the order of their submission, each a Commit that        *)
(* encodes the record with status New, whatever the blocks argument holds; *)
(* the round ends its loop on an empty channel; at all times the actions   *)
(* of the earlier rounds, those of the round under way and the records     *)
(* still pending make up the submitted records, once each and in order.    *)
OutboundFifo ==
    /\ [](\A o \in DOMAIN sessions :
             Taken(o) \o InRound(o) \o Encoded(sessions[o].pending)
                = Encoded(sessions[o].submitted))
    /\ [][last'.op = "process_blocks" /\ last'.delivered =>
             LET s == sessions[last'.info]
                 first == Len(s.drained) + 1
                 upto == Len(s.submitted) - Len(s.pending)
             IN  /\ last'.payload = BlockUpdate(Encoded(SubSeq(s.submitted, first, upto)))
                 /\ \A i \in 1..Len(last'.payload.tl.actions) :
                       /\ last'.payload.tl.actions[i].kind = "Commit"
                       /\ last'.payload.tl.actions[i].signature.tl.status = RmqNew]_vars
    /\ [][pc[CatchainThread] = "drain" /\ pc'[CatchainThread] = "hand" =>
             sessions[call[CatchainThread].info].pending = <<>>]_vars

\* a second round, called with a block, has handed over two records in the
\* order of their submission, after the record of the first round
OutboundFifoWitness ==
    /\ last.op = "process_blocks"
    /\ last.delivered
    /\ last.blocks # <<>>
    /\ last.payload = BlockUpdate(Encoded(<<LocalM("m2"), LocalM("m1")>>))
    /\ last.info \in DOMAIN sessions
    /\ Len(sessions[last.info].drained) = 3
    /\ sessions[last.info].drained[1].delivered

\* the statuses that have an encoding of their own
OnWire(s) ==
    \/ s.tag = "New"
    \/ s.tag \in {"Accepted", "Rejected"} /\ s.level = "Collator"

(* C23: for every record m, also one whose source_idx is 2^31 or more, and *)
(* every status s that is New, Accepted at level Collator or Rejected at   *)
(* level Collator, deserialize(serialize(m, s), cc) succeeds with a record *)
(* equal to m on message, message_id, source_key and source_idx, whose     *)
(* master_cc_seqno is cc, and with a status of the same kind as s, at      *)
(* level Collator, with the block_id and the error of s.                   *)
CodecRoundTrip ==
    last.op = "codec" /\ OnWire(last.s) =>
        /\ ~last.ret.err
        /\ last.ret.v.msg.message = last.m.message
        /\ last.ret.v.msg.message_id = last.m.message_id
        /\ last.ret.v.msg.source_key = last.m.source_key
        /\ last.ret.v.msg.source_idx = last.m.source_idx
        /\ last.ret.v.msg.master_cc_seqno = last.cc
        /\ last.ret.v.status.tag = last.s.tag
        /\ last.ret.v.status.level = last.s.level
        /\ last.ret.v.status.block_id = last.s.block_id
        /\ last.ret.v.status.error = last.s.error

\* a record with source_idx 2^31, accepted by the collator in block 2, has
\* crossed to a session of another master_cc_seqno
CodecRoundTripWitness ==
    /\ last.op = "codec"
    /\ last.m.source_idx = <<Half \div 2, 0>>
    /\ last.s = RempAccepted("Collator", 2)
    /\ last.wire.tl.source_idx < 0
    /\ last.cc # last.m.master_cc_seqno
    /\ ~last.ret.err
    /\ last.ret.v.status.block_id = 2

(* C24: a record serialized with status Duplicate, Ignored or Timeout goes *)
(* out with status New and is decoded with status New; the status on the   *)
(* wire is always New, Accepted with a block_id, or Rejected with a        *)
(* block_id and an error.                                                  *)
LocalStatusesStayLocal ==
    last.op = "codec" =>
        /\ \/ last.wire.tl.status = RmqNew
           \/ \E b \in Blocks \cup {BlockDefault} :
                 \/ last.wire.tl.status = RmqAccepted(b)
                 \/ \E e \in {"-", "e"} : last.wire.tl.status = RmqRejected(b, e)
        /\ last.s.tag \in {"Duplicate", "Ignored", "Timeout"} =>
              /\ last.wire.tl.status = RmqNew
              /\ ~last.ret.err
              /\ last.ret.v.status = RempNew

\* an Ignored status that names a block went out as New
LocalStatusesWitness ==
    /\ last.op = "codec"
    /\ last.s.tag = "Ignored"
    /\ last.s.block_id = 2
    /\ last.wire.tl.status = RmqNew
    /\ last.ret.v.status = RempNew

(***************************************************************************)
(* RempCatchainInfo::create, lines 55-72: the node list of a session and   *)
(* the place of the local key in it.                                       *)
(***************************************************************************)
MaxNodes == 2                   \* validators in the current and in the next set

\* ValidatorDescr: a public key and the transport (adnl) id of the validator;
\* two keys may be served from one transport id
ValidatorDescrs ==
    {[key |-> "k1", adnl |-> "a1"], [key |-> "k2", adnl |-> "a2"],
     [key |-> "k3", adnl |-> "a2"]}
LocalKeys == {d.key : d \in ValidatorDescrs}

\* validator_utils::validatordescr_to_catchain_node
validatordescr_to_catchain_node(descr) ==
    [public_key |-> descr.key, adnl_id |-> descr.adnl]

\* validator_utils::get_validator_key_idx: the first place of the key
get_validator_key_idx(local, nodes) ==
    LET found == {i \in 1..Len(nodes) : nodes[i].public_key = local}
    IN  IF found = {} THEN Err
        ELSE Ok((CHOOSE i \in found : \A j \in found : i <= j) - 1)

\* lines 63-69: adnl_hash is read for every member of next and never written
RECURSIVE push_next(_, _, _)
push_next(nodes, next, adnl_hash) ==
    IF next = <<>> THEN nodes
    ELSE LET next_cn == validatordescr_to_catchain_node(Head(next))
         IN  push_next(IF next_cn.adnl_id \notin adnl_hash
                       THEN Append(nodes, next_cn) ELSE nodes,
                       Tail(next), adnl_hash)

\* lines 55-72
RempCatchainInfo_create(curr, next, local) ==
    LET nodes == [i \in 1..Len(curr) |-> validatordescr_to_catchain_node(curr[i])]
        adnl_hash == {nodes[i].adnl_id : i \in 1..Len(nodes)}
        all == push_next(nodes, next, adnl_hash)
        local_idx == get_validator_key_idx(local, all)
    IN  IF local_idx.err THEN Err
        ELSE Ok([nodes |-> all, local_idx |-> local_idx.v])

\* the current set names no transport id twice; the next set is any list
CurrInputs ==
    {c \in SeqsUpTo(ValidatorDescrs, MaxNodes) :
        \A i, j \in 1..Len(c) : c[i].adnl = c[j].adnl => i = j}
NextInputs == SeqsUpTo(ValidatorDescrs, MaxNodes)

create_info(p) ==
    /\ pc[p] = "create_info"
    /\ Returns([op |-> "create_info", curr |-> call[p].curr, next |-> call[p].next,
                local |-> call[p].local,
                ret |-> RempCatchainInfo_create(call[p].curr, call[p].next,
                                                call[p].local)])
    /\ pc' = [pc EXCEPT ![p] = "idle"]
    /\ call' = [call EXCEPT ![p] = Idle]
    /\ UNCHANGED <<maps, store_vars, trace>>

\* SpecNodes: one construction from any pair of sets and any local key
InitNodes ==
    /\ messages = EmptyMap
    /\ message_shards = EmptyMap
    /\ message_statuses = EmptyMap
    /\ catchains = EmptyMap
    /\ sessions = EmptyMap
    /\ trace = TRUE
    /\ last = NoCall
    /\ \E curr \in CurrInputs, next \in NextInputs, local \in LocalKeys :
          /\ pc = [p \in Procs |-> IF p = Caller THEN "create_info" ELSE "idle"]
          /\ call = [p \in Procs |-> IF p = Caller
                                     THEN [curr |-> curr, next |-> next, local |-> local]
                                     ELSE Idle]

NextNodes == create_info(Caller)

SpecNodes == InitNodes /\ [][NextNodes]_vars

(* C25: the node list of a constructed session is the current set in       *)
(* order, followed by members of the next set in the order of the next     *)
(* set, each with a transport id that the current set does not hold, and   *)
(* no two entries of the list have the same transport id, also when the    *)
(* next set names a transport id twice.                                    *)
NodeListDistinct ==
    last.op = "create_info" /\ ~last.ret.err =>
        LET nodes == last.ret.v.nodes
            n == Len(last.curr)
        IN  /\ Len(nodes) >= n
            /\ \A i \in 1..n : nodes[i] = validatordescr_to_catchain_node(last.curr[i])
            /\ \A i \in (n + 1)..Len(nodes) :
                  /\ \E j \in 1..Len(last.next) :
                        nodes[i] = validatordescr_to_catchain_node(last.next[j])
                  /\ \A j \in 1..n : nodes[j].adnl_id # nodes[i].adnl_id
            /\ \A i, j \in 1..Len(nodes) : nodes[i].adnl_id = nodes[j].adnl_id => i = j

(* C26: for a cached record whose master_cc_seqno is 2^32 - 2 or 2^32 - 1  *)
(* the sum master_cc_seqno + 2 is above every 32-bit current_cc: no        *)
(* get_old_messages returns the record as expired, whatever current_cc is, *)
(* and the call does not abort.                                            *)
TopSeqnoNeverExpires ==
    last.op = "get_old" =>
        /\ ~last.ret.panic
        /\ \A i \in 1..Len(last.ret.list) :
              LET msg == last.ret.list[i].msg
              IN  msg.message_id \in DOMAIN message_statuses =>
                     msg.master_cc_seqno \notin TopCc

(***************************************************************************)
(* Invariants of the store under concurrent callers.                       *)
(***************************************************************************)
(* C27: in every reachable state an entry whose status is Created,         *)
(* Starting or Active has a refcount of at least 1, so that the decrement  *)
(* of detach is never applied to a refcount of 0: no refcount is below 0   *)
(* (wrapped) and no stop aborts on the subtraction, under every            *)
(* interleaving of create, start and stop.                                 *)
RefcountPositive ==
    /\ \A q \in DOMAIN catchains :
          /\ catchains[q].status \in {"Created", "Starting", "Active"} =>
                catchains[q].count >= 1
          /\ catchains[q].count >= 0
          /\ stop_allowed(catchains[q]) => ~detach_underflows(catchains[q])
    /\ ~(last.op = "stop" /\ last.ret = Panicked)

\* a stop has just taken one of the two references of an Active entry: the
\* entry is Active with refcount 1
RefcountPositiveWitness ==
    /\ "q1" \in DOMAIN catchains
    /\ last.op = "stop"
    /\ catchains["q1"].status = "Active"
    /\ catchains["q1"].count = 1
    /\ SessionOf("q1").detached
    /\ SessionOf("q1").creates = 2

(* C28: in every reachable state the session of an entry with status       *)
(* Active holds a catchain handle in catchain_ptr, and a                   *)
(* get_catchain_session on an Active entry returns Some.                   *)
ActiveHasHandle ==
    /\ \A q \in DOMAIN catchains :
          catchains[q].status = "Active" => SessionOf(q).catchain_ptr.some
    /\ \A q \in DOMAIN catchains :
          /\ last.op = "get_session"
          /\ last.session_id = q
          /\ catchains[q].status = "Active"
          => last.ret = Some(CatchainHandle)

\* get_catchain_session has returned the handle of an Active entry from
\* which a stop had taken one of its references
ActiveHasHandleWitness ==
    /\ "q1" \in DOMAIN catchains
    /\ catchains["q1"].status = "Active"
    /\ last.op = "get_session"
    /\ last.ret = Some(CatchainHandle)
    /\ SessionOf("q1").detached

\* the callers that are inside a start of entry q, between the critical
\* section that set Starting and the one that sets Active
Starting(q) ==
    {p \in Procs : /\ pc[p] \in {"start_io", "set_session", "set_active"}
                   /\ call[p].session_id = q}

(* C29: while a start is in flight for an entry, between the setting of    *)
(* Starting and the final set_active, no interleaving of create, start and *)
(* stop calls removes the entry, replaces it or changes its status; so the *)
(* second critical section of a start whose session start succeeded finds  *)
(* the entry with status Starting, set_active succeeds and the start       *)
(* returns Ok with the entry Active.                                       *)
StartWindowStable ==
    /\ [](\A q \in QueueIds : \A p \in Starting(q) :
             /\ q \in DOMAIN catchains
             /\ catchains[q].status = "Starting"
             /\ catchains[q].info = call[p].info)
    /\ [][\A p \in Procs :
             pc[p] = "set_active" /\ pc'[p] = "idle" =>
                /\ last' = [op |-> "start", session_id |-> call[p].session_id,
                            ret |-> Ok(Unit)]
                /\ StatusOf(catchains, call[p].session_id) = "Starting"
                /\ StatusOf(catchains', call[p].session_id) = "Active"]_vars

\* a start has completed with the entry Active although, during its window,
\* the other caller attached to the entry and had a start of its own refused
StartWindowWitness ==
    /\ last = [op |-> "start", session_id |-> "q1", ret |-> Ok(Unit)]
    /\ "q1" \in DOMAIN catchains
    /\ catchains["q1"].status = "Active"
    /\ catchains["q1"].count = 2
    /\ SessionOf("q1").starts = 1
    /\ ~SessionOf("q1").detached

(* C30: no entry is stuck: in every reachable state an entry with status   *)
(* Starting or Stopping has a start or a stop in flight for it, which will *)
(* complete the transition; also after the start or the stop of the        *)
(* session returned an error.                                              *)
NoStuckEntry ==
    \A q \in DOMAIN catchains :
        catchains[q].status \in {"Starting", "Stopping"} =>
            \E p \in Procs : pc[p] \in StorePcs /\ call[p].session_id = q

(***************************************************************************)
(* The expiry sweep followed by the application of its proposals.          *)
(***************************************************************************)
(* C31: every proposal of the expiry sweep can be applied: for every pair  *)
(* of a record and Some(status) that get_old_messages has returned,        *)
(* update_message_status(record.message_id, status), called on the cache   *)
(* as the sweep left it, succeeds, the move from the current status of the *)
(* record to the proposed status being a legal one.                        *)
SweepProposalsApply ==
    last.op = "get_old" =>
        \A i \in 1..Len(last.ret.list) :
            LET e == last.ret.list[i]
            IN  e.ns.some =>
                   ~Impl_update_message_status(
                        message_statuses, e.msg.message_id, e.ns.v).err

(* C32: no outbound record is lost for want of a handle: once the catchain *)
(* of a session has been constructed by the session's start, every         *)
(* process_blocks finds catchain_ptr present, so that every record it      *)
(* takes out of the pending channel is handed to the catchain in its       *)
(* payload, however the callback interleaves with start_catchain.          *)
NoRecordDropped ==
    /\ last.op = "process_blocks" /\ last.payload # BlockUpdate(<<>>) => last.delivered
    /\ \A o \in DOMAIN sessions :
          \A i \in 1..Len(sessions[o].drained) : sessions[o].drained[i].delivered
====
